---- MODULE Spec2Model ----
(***************************************************************************)
(* worktree-setup: detection of a linked git worktree and the one-time     *)
(* setup protocol of runSetup (src/src/setup.ts), with the detached bash   *)
(* command chain it launches and the ledger file .worktree-setup.log.      *)
(*                                                                         *)
(* Invocations of runSetup are processes (Procs); every access to the      *)
(* shared file system (a ledger read, a ledger append, an existence check, *)
(* a copy) is one atomic step.  What the environment owns (the git         *)
(* metadata seen from the working directory, the primary worktree's        *)
(* package.json, I/O errors, exit codes of the user's commands) is an      *)
(* input drawn when the code reads it.  appendFileSync is assumed not to   *)
(* throw (the worktree is writable).                                       *)
(***************************************************************************)
EXTENDS Integers, Sequences, FiniteSets, TLC

\* ------------------------------------------------------------------ bounds
\* No new attempt passes the ledger gate once the ledger holds MaxLog lines.
MaxLog == 4

\* Concurrent runSetup invocations on the machine.
Procs == {1, 2}
\* Relative paths a config may list under "copy".
Paths == {"a", "b"}
\* Exit codes of a user command.
ExitCodes == {0, 1, 2}

\* ------------------------------------------------------------- directories
\* Absolute paths are sequences of segments.
DirM == <<"m">>
DirW == <<"w">>
DirBare == <<"r.git">>
\* Directories that can be a worktreeRoot, each with its own ledger file.
Roots == {DirM, DirW}

\* ---------------------------------------------------------- git.ts (part_001)
\* path.dirname / path.basename of an absolute path.
dirname(p) == IF Len(p) <= 1 THEN <<>> ELSE SubSeq(p, 1, Len(p) - 1)
basename(p) == IF Len(p) = 0 THEN "" ELSE p[Len(p)]

\* path normalisation: "." is dropped, ".." removes the segment before it.
RECURSIVE normalize(_, _)
normalize(acc, rest) ==
  IF rest = <<>> THEN acc
  ELSE IF Head(rest) = "." THEN normalize(acc, Tail(rest))
  ELSE IF Head(rest) = ".." THEN normalize(dirname(acc), Tail(rest))
  ELSE normalize(Append(acc, Head(rest)), Tail(rest))

\* path.resolve(cwd, out): out is [abs, segs]; a relative out is taken from cwd.
resolve(cwd, out) ==
  IF out.abs THEN normalize(<<>>, out.segs) ELSE normalize(<<>>, cwd \o out.segs)

\* One answer of `git -C cwd rev-parse ...`: it throws (ok = FALSE) or prints a path.
GitFail == [ok |-> FALSE, abs |-> FALSE, segs |-> <<>>]
GitAbs(p) == [ok |-> TRUE, abs |-> TRUE, segs |-> p]
GitRel(p) == [ok |-> TRUE, abs |-> FALSE, segs |-> p]
GitEmpty == GitRel(<<>>)

\* What git answers in the working directories an invocation can run in.
\* kind says what the directory is; git's answers are what the code sees.
\* rev-parse throws only outside a repository.
GitFacts ==
  { \* not under version control: every rev-parse throws
    [kind |-> "none", cwd |-> <<"tmp">>, super |-> GitFail, top |-> GitFail, common |-> GitFail,
     gitdir |-> GitFail],
    \* inside a submodule of /m
    [kind |-> "submodule", cwd |-> <<"m", "mod">>, super |-> GitAbs(DirM), top |-> GitAbs(<<"m", "mod">>),
     common |-> GitAbs(<<"m", ".git", "modules", "mod">>),
     gitdir |-> GitAbs(<<"m", ".git", "modules", "mod">>)],
    \* the primary worktree, at its root (git prints relative paths)
    [kind |-> "primary", cwd |-> DirM, super |-> GitEmpty, top |-> GitAbs(DirM),
     common |-> GitRel(<<".git">>), gitdir |-> GitRel(<<".git">>)],
    \* the primary worktree, from a subdirectory
    [kind |-> "primary", cwd |-> <<"m", "sub">>, super |-> GitEmpty, top |-> GitAbs(DirM),
     common |-> GitRel(<<"..", ".git">>), gitdir |-> GitAbs(<<"m", ".git">>)],
    \* the linked worktree /w of /m, at its root
    [kind |-> "linked", cwd |-> DirW, super |-> GitEmpty, top |-> GitAbs(DirW),
     common |-> GitAbs(<<"m", ".git">>),
     gitdir |-> GitAbs(<<"m", ".git", "worktrees", "w">>)],
    \* the linked worktree /w of /m, from a subdirectory
    [kind |-> "linked", cwd |-> <<"w", "sub">>, super |-> GitEmpty, top |-> GitAbs(DirW),
     common |-> GitAbs(<<"m", ".git">>),
     gitdir |-> GitAbs(<<"m", ".git", "worktrees", "w">>)],
    \* the linked worktree /w of the bare repository /r.git
    [kind |-> "linked", cwd |-> DirW, super |-> GitEmpty, top |-> GitAbs(DirW),
     common |-> GitAbs(DirBare),
     gitdir |-> GitAbs(<<"r.git", "worktrees", "w">>)] }

NoInfo ==
  [found |-> FALSE, worktreeRoot |-> <<>>, mainRoot |-> <<>>, isLinkedWorktree |-> FALSE]

\* A slip: mainRoot is always taken as the parent of the shared directory.
detectWorktree_parent(g) ==
  IF g.super.ok /\ g.super.segs # <<>> THEN NoInfo
  ELSE IF ~(g.top.ok /\ g.common.ok /\ g.gitdir.ok) THEN NoInfo
  ELSE LET worktreeRoot == resolve(g.cwd, g.top)
           gitCommonDir == resolve(g.cwd, g.common)
           gitDir == resolve(g.cwd, g.gitdir)
       IN [found |-> TRUE,
           worktreeRoot |-> worktreeRoot,
           mainRoot |-> dirname(gitCommonDir),
           isLinkedWorktree |-> gitDir # gitCommonDir]

\* A slip: the superproject check is left out.
detectWorktree_nosuper(g) ==
  IF ~(g.top.ok /\ g.common.ok /\ g.gitdir.ok) THEN NoInfo
  ELSE LET worktreeRoot == resolve(g.cwd, g.top)
           gitCommonDir == resolve(g.cwd, g.common)
           gitDir == resolve(g.cwd, g.gitdir)
       IN [found |-> TRUE,
           worktreeRoot |-> worktreeRoot,
           mainRoot |-> IF basename(gitCommonDir) = ".git"
                        THEN dirname(gitCommonDir) ELSE gitCommonDir,
           isLinkedWorktree |-> gitDir # gitCommonDir]

detectWorktree(g) ==
  IF g.super.ok /\ g.super.segs # <<>> THEN NoInfo
  ELSE IF ~(g.top.ok /\ g.common.ok /\ g.gitdir.ok) THEN NoInfo
  ELSE LET worktreeRoot == resolve(g.cwd, g.top)
           gitCommonDir == resolve(g.cwd, g.common)
           gitDir == resolve(g.cwd, g.gitdir)
       IN [found |-> TRUE,
           worktreeRoot |-> worktreeRoot,
           mainRoot |-> IF basename(gitCommonDir) = ".git"
                        THEN dirname(gitCommonDir) ELSE gitCommonDir,
           isLinkedWorktree |-> gitDir # gitCommonDir]

\* ---------------------------------------------------------------- setup.ts
SUCCESS_TOKEN == "WORKTREE_SETUP_STATUS=success"

\* A configured command is a shell string, here its token sequence: a simple
\* command "c", two simple commands joined by the shell's "||", or a simple
\* command "s" whose output holds the text of SUCCESS_TOKEN (an echo of it, a
\* cat of an older ledger, a traced script).
Simple == <<"c">>
OrElse == <<"c", "||", "c">>
Says == <<"s">>

\* The text a simple command writes, as far as the token is concerned.
OutputOf(tok) == IF tok = "s" THEN SUCCESS_TOKEN ELSE ""

\* The "copy" and "run" lists a worktreeSetup value may hold.
CopyLists == { <<>>, <<"a">>, <<"a", "b">> }
RunLists == { <<>>, <<Simple>>, <<Simple, Simple>>, <<Simple, OrElse>>, <<Says>> }

NoConfig == [present |-> FALSE, copy |-> <<>>, run |-> <<>>]
Configs ==
  {[present |-> TRUE, copy |-> c, run |-> r] : c \in CopyLists, r \in RunLists}

\* The primary worktree's package.json as readConfig finds it.
Pkgs ==
  {[exists |-> FALSE, parses |-> FALSE, ws |-> NoConfig],
   [exists |-> TRUE, parses |-> FALSE, ws |-> NoConfig],
   [exists |-> TRUE, parses |-> TRUE, ws |-> NoConfig]}
  \cup {[exists |-> TRUE, parses |-> TRUE, ws |-> c] : c \in Configs}

\* A slip: a config without entries is taken for no config.
readConfig_emptyabsent(pkg) ==
  IF ~pkg.exists THEN NoConfig
  ELSE IF ~pkg.parses THEN NoConfig
  ELSE IF pkg.ws.copy = <<>> /\ pkg.ws.run = <<>> THEN NoConfig
  ELSE pkg.ws

readConfig(pkg) ==
  IF ~pkg.exists THEN NoConfig
  ELSE IF ~pkg.parses THEN NoConfig
  ELSE pkg.ws

\* A ledger line.  k is the message; rel / n its argument (rel: the text
\* from outside that the line embeds, a configured path or what a command
\* wrote); a is the attempt that wrote it (not in the file: what the timestamp
\* and pid stand for).
\* The file is the sequence of its lines; a piece of command output written
\* without its newline is an element of its own ("outhead"), and so is the
\* rest of that line ("outtail") when other text was written in between.
Line(a, k, rel, n) == [a |-> a, k |-> k, rel |-> rel, n |-> n]

\* Does the text of the line contain SUCCESS_TOKEN?  The line is the token
\* line, or the text it embeds holds the token.
ContainsToken(l) == l.k = "success" \/ l.rel = SUCCESS_TOKEN

\* A slip: only the first line of the file is examined.
hasSuccessfulSetup_first(log) ==
  IF log = <<>> THEN FALSE ELSE ContainsToken(log[1])

\* A slip: the existence of the file is taken for success.
hasSuccessfulSetup_exists(log) == log # <<>>

hasSuccessfulSetup(log) ==
  IF log = <<>> THEN FALSE
  ELSE \E i \in 1..Len(log) : ContainsToken(log[i])

VARIABLES
  files,        \* the linked worktree /w: configured path -> what is there
  ledger,       \* worktree root -> lines of its .worktree-setup.log (<<>>: no file)
  chains,       \* the detached bash processes launched so far
  pkg,          \* the primary worktree's package.json, once an invocation read it
  pc,           \* per invocation: where runSetup is ("idle": not running)
  info,         \* per invocation: detectWorktree's answer
  mainFound,    \* per invocation: fs.existsSync(info.mainRoot), once evaluated
  cfg,          \* per invocation: readConfig's answer
  idx,          \* per invocation: position of the copy loop in config.copy
  copiedFiles,  \* per invocation: the local copiedFiles
  copyFailed,   \* per invocation: the local copyFailed
  att,          \* per invocation: number of the attempt its start line opened
  result        \* per invocation: the SetupResult it returns

vars == <<files, ledger, chains, pkg, pc, info, mainFound, cfg, idx, copiedFiles, copyFailed,
          att, result>>

NoResult ==
  [returned |-> FALSE, performed |-> FALSE, skippedReason |-> "",
   copiedFiles |-> <<>>, ranCommands |-> <<>>]
Skip(reason) ==
  [returned |-> TRUE, performed |-> FALSE, skippedReason |-> reason,
   copiedFiles |-> <<>>, ranCommands |-> <<>>]
Performed(copied, commands) ==
  [returned |-> TRUE, performed |-> TRUE, skippedReason |-> "",
   copiedFiles |-> copied, ranCommands |-> commands]

PkgUnread == [known |-> FALSE, exists |-> FALSE, parses |-> FALSE, ws |-> NoConfig]
PkgRead(k) == [known |-> TRUE, exists |-> k.exists, parses |-> k.parses, ws |-> k.ws]

Init ==
  /\ files \in [Paths -> {"absent", "local"}]
  /\ ledger = [r \in Roots |-> <<>>]
  /\ chains = <<>>
  /\ pkg = PkgUnread
  /\ pc = [p \in Procs |-> "idle"]
  /\ info = [p \in Procs |-> NoInfo]
  /\ mainFound = [p \in Procs |-> TRUE]
  /\ cfg = [p \in Procs |-> NoConfig]
  /\ idx = [p \in Procs |-> 1]
  /\ copiedFiles = [p \in Procs |-> <<>>]
  /\ copyFailed = [p \in Procs |-> FALSE]
  /\ att = [p \in Procs |-> 0]
  /\ result = [p \in Procs |-> NoResult]

\* A slip: writeFileSync in place of appendFileSync.
appendLog_overwrite(log, l) == <<l>>

\* appendLog(logPath, message): one line is added at the end of the file.
appendLog(log, l) == Append(log, l)

AppendTo(p, l) ==
  ledger' = [ledger EXCEPT ![info[p].worktreeRoot] = appendLog(@, l)]

\* return: the SetupResult is handed to the caller.
Return(p, r) ==
  /\ result' = [result EXCEPT ![p] = r]
  /\ pc' = [pc EXCEPT ![p] = "done"]

\* A slip: the test of copyFailed after the loop is left out.
AfterCopy_nofailtest(p, i, failed) ==
  IF i <= Len(cfg[p].copy) THEN "copycheck"
  ELSE IF Len(cfg[p].run) > 0 THEN "launching"
  ELSE "success"

\* Where runSetup goes once the copy loop stands at position i.
AfterCopy(p, i, failed) ==
  IF i <= Len(cfg[p].copy) THEN "copycheck"
  ELSE IF failed THEN "failtoken"
  ELSE IF Len(cfg[p].run) > 0 THEN "launching"
  ELSE "success"

\* A slip: the ledger gate is left out.
Gates_noledger(i, mainExists, c, log) ==
  IF ~i.found THEN Skip("Not in a git repository")
  ELSE IF ~i.isLinkedWorktree THEN Skip("Not a linked worktree")
  ELSE IF ~mainExists THEN Skip("Main worktree not found")
  ELSE IF ~c.present THEN Skip("No worktreeSetup config in package.json")
  ELSE NoResult

\* A slip: the ledger is looked at before the config.
Gates_ledgerfirst(i, mainExists, c, log) ==
  IF ~i.found THEN Skip("Not in a git repository")
  ELSE IF ~i.isLinkedWorktree THEN Skip("Not a linked worktree")
  ELSE IF ~mainExists THEN Skip("Main worktree not found")
  ELSE IF hasSuccessfulSetup(log) THEN Skip("Already initialized")
  ELSE IF ~c.present THEN Skip("No worktreeSetup config in package.json")
  ELSE NoResult

\* The gates of runSetup in their order: the skip result of the first unmet
\* precondition, or NoResult when all are met.
Gates(i, mainExists, c, log) ==
  IF ~i.found THEN Skip("Not in a git repository")
  ELSE IF ~i.isLinkedWorktree THEN Skip("Not a linked worktree")
  ELSE IF ~mainExists THEN Skip("Main worktree not found")
  ELSE IF ~c.present THEN Skip("No worktreeSetup config in package.json")
  ELSE IF hasSuccessfulSetup(log) THEN Skip("Already initialized")
  ELSE NoResult

LogOf(i) == IF i.worktreeRoot \in Roots THEN ledger[i.worktreeRoot] ELSE <<>>

\* A slip in the other direction: a lock keeps a second invocation out while
\* one runs.
Enter_locked(p) ==
  /\ pc[p] = "idle"
  /\ \A q \in Procs \ {p} : pc[q] = "idle"
  /\ \E i \in {detectWorktree(g) : g \in GitFacts} :
       \E mainExists \in IF i.found /\ i.isLinkedWorktree THEN BOOLEAN ELSE {TRUE} :
         LET reads == i.found /\ i.isLinkedWorktree /\ mainExists
         IN \E k \in IF pkg.known \/ ~reads THEN {pkg} ELSE {PkgRead(x) : x \in Pkgs} :
              LET c == IF reads THEN readConfig(k) ELSE NoConfig
                  r == Gates(i, mainExists, c, LogOf(i))
              IN /\ r.returned \/ Len(LogOf(i)) < MaxLog
                 /\ info' = [info EXCEPT ![p] = i]
                 /\ mainFound' = [mainFound EXCEPT ![p] = mainExists]
                 /\ cfg' = [cfg EXCEPT ![p] = c]
                 /\ pkg' = k
                 /\ result' = [result EXCEPT ![p] = r]
                 /\ pc' = [pc EXCEPT ![p] = IF r.returned THEN "done" ELSE "start"]
  /\ UNCHANGED <<files, ledger, chains, idx, copiedFiles, copyFailed, att>>

\* runSetup from its call to the ledger gate.  detectWorktree, the main-root
\* check and readConfig read what the environment owns; package.json is read
\* only when the earlier gates passed, and keeps its content while an
\* invocation runs.  The ledger is read last.
Enter(p) ==
  /\ pc[p] = "idle"
  /\ \E i \in {detectWorktree(g) : g \in GitFacts} :
       \E mainExists \in IF i.found /\ i.isLinkedWorktree THEN BOOLEAN ELSE {TRUE} :
         LET reads == i.found /\ i.isLinkedWorktree /\ mainExists
         IN \E k \in IF pkg.known \/ ~reads THEN {pkg} ELSE {PkgRead(x) : x \in Pkgs} :
              LET c == IF reads THEN readConfig(k) ELSE NoConfig
                  r == Gates(i, mainExists, c, LogOf(i))
              IN /\ r.returned \/ Len(LogOf(i)) < MaxLog
                 /\ info' = [info EXCEPT ![p] = i]
                 /\ mainFound' = [mainFound EXCEPT ![p] = mainExists]
                 /\ cfg' = [cfg EXCEPT ![p] = c]
                 /\ pkg' = k
                 /\ result' = [result EXCEPT ![p] = r]
                 /\ pc' = [pc EXCEPT ![p] = IF r.returned THEN "done" ELSE "start"]
  /\ UNCHANGED <<files, ledger, chains, idx, copiedFiles, copyFailed, att>>

NStarts(log) == Cardinality({i \in 1..Len(log) : log[i].k = "start"})

\* appendLog(`setup start for ...`)
AppendStart(p) ==
  /\ pc[p] = "start"
  /\ LET a == NStarts(ledger[info[p].worktreeRoot]) + 1
     IN /\ AppendTo(p, Line(a, "start", "", 0))
        /\ att' = [att EXCEPT ![p] = a]
  /\ pc' = [pc EXCEPT ![p] = AfterCopy(p, 1, FALSE)]
  /\ UNCHANGED <<files, chains, pkg, info, mainFound, cfg, idx, copiedFiles, copyFailed,
                 result>>

\* fs.existsSync(dest), dest = join(worktreeRoot, rel) in the linked worktree.
DestExists(rel) == files[rel] # "absent"

\* A slip: the destination is not checked.
CopyCheck_nodest(p) ==
  /\ pc[p] = "copycheck"
  /\ \E srcExists \in BOOLEAN :
       pc' = [pc EXCEPT ![p] = IF ~srcExists THEN "ret23" ELSE "copydo"]
  /\ UNCHANGED <<files, ledger, chains, pkg, info, mainFound, cfg, idx, copiedFiles,
                 copyFailed, att, result>>

\* copyIfMissing, its two existence checks: it returns false at the first
\* ("ret23") or at the second ("ret24"), or goes on to copy.
CopyCheck(p) ==
  /\ pc[p] = "copycheck"
  /\ \E srcExists \in BOOLEAN :
       LET rel == cfg[p].copy[idx[p]]
       IN pc' = [pc EXCEPT ![p] =
                   IF ~srcExists THEN "ret23"
                   ELSE IF DestExists(rel) THEN "ret24"
                   ELSE "copydo"]
  /\ UNCHANGED <<files, ledger, chains, pkg, info, mainFound, cfg, idx, copiedFiles,
                 copyFailed, att, result>>

\* copyIfMissing, lstat / mkdir / cpSync or copyFileSync: the copy is made and
\* copiedFiles.push(rel) follows, or one of the calls throws, leaving nothing
\* or a partial destination.
CopyDo(p) ==
  /\ pc[p] = "copydo"
  /\ LET rel == cfg[p].copy[idx[p]]
     IN \E outcome \in {"copied", "throw", "throwpartial"} :
          /\ files' = [files EXCEPT ![rel] =
                         IF outcome = "copied" THEN "src"
                         ELSE IF outcome = "throwpartial" /\ @ = "absent" THEN "partial"
                         ELSE @]
          /\ copiedFiles' = [copiedFiles EXCEPT ![p] =
                               IF outcome = "copied" THEN Append(@, rel) ELSE @]
          /\ pc' = [pc EXCEPT ![p] = IF outcome = "copied" THEN "logcopied"
                                      ELSE "logfailed"]
  /\ UNCHANGED <<ledger, chains, pkg, info, mainFound, cfg, idx, copyFailed, att, result>>

\* copyIfMissing returned false: else if (fs.existsSync(dest))
SkipCheck(p) ==
  /\ pc[p] \in {"ret23", "ret24"}
  /\ LET rel == cfg[p].copy[idx[p]]
     IN pc' = [pc EXCEPT ![p] =
                 IF DestExists(rel) THEN "logexists"
                 ELSE "logmissing"]
  /\ UNCHANGED <<files, ledger, chains, pkg, info, mainFound, cfg, idx, copiedFiles,
                 copyFailed, att, result>>

\* The message the copy loop records at each of its four exits.
CopyKind(at) ==
  CASE at = "logcopied" -> "copied"
    [] at = "logexists" -> "exists"
    [] at = "logmissing" -> "missing"
    [] at = "logfailed" -> "failed"

\* A slip: the message names the path at the mirrored position of the list.
LogCopy_mirrored(p) ==
  /\ pc[p] \in {"logcopied", "logexists", "logmissing", "logfailed"}
  /\ LET rel == cfg[p].copy[Len(cfg[p].copy) + 1 - idx[p]]
         failed == copyFailed[p] \/ pc[p] = "logfailed"
     IN /\ AppendTo(p, Line(att[p], CopyKind(pc[p]), rel, 0))
        /\ copyFailed' = [copyFailed EXCEPT ![p] = failed]
        /\ idx' = [idx EXCEPT ![p] = @ + 1]
        /\ pc' = [pc EXCEPT ![p] = AfterCopy(p, idx[p] + 1, failed)]
  /\ UNCHANGED <<files, chains, pkg, info, mainFound, cfg, copiedFiles, att, result>>

\* A slip: copyFailed is assigned the outcome of the last path only.
LogCopy_lastonly(p) ==
  /\ pc[p] \in {"logcopied", "logexists", "logmissing", "logfailed"}
  /\ LET rel == cfg[p].copy[idx[p]]
         failed == pc[p] = "logfailed"
     IN /\ AppendTo(p, Line(att[p], CopyKind(pc[p]), rel, 0))
        /\ copyFailed' = [copyFailed EXCEPT ![p] = failed]
        /\ idx' = [idx EXCEPT ![p] = @ + 1]
        /\ pc' = [pc EXCEPT ![p] = AfterCopy(p, idx[p] + 1, failed)]
  /\ UNCHANGED <<files, chains, pkg, info, mainFound, cfg, copiedFiles, att, result>>

\* The loop body's appendLog, and the step to the next path: the catch block
\* sets copyFailed and the loop goes on.
LogCopy(p) ==
  /\ pc[p] \in {"logcopied", "logexists", "logmissing", "logfailed"}
  /\ LET rel == cfg[p].copy[idx[p]]
         failed == copyFailed[p] \/ pc[p] = "logfailed"
     IN /\ AppendTo(p, Line(att[p], CopyKind(pc[p]), rel, 0))
        /\ copyFailed' = [copyFailed EXCEPT ![p] = failed]
        /\ idx' = [idx EXCEPT ![p] = @ + 1]
        /\ pc' = [pc EXCEPT ![p] = AfterCopy(p, idx[p] + 1, failed)]
  /\ UNCHANGED <<files, chains, pkg, info, mainFound, cfg, copiedFiles, att, result>>

\* if (copyFailed) { appendLog('...failed stage=copy'); return ... }
AppendCopyFailed(p) ==
  /\ pc[p] = "failtoken"
  /\ AppendTo(p, Line(att[p], "copyfailtoken", "", 0))
  /\ Return(p, Skip("Failed to copy one or more files"))
  /\ UNCHANGED <<files, chains, pkg, info, mainFound, cfg, idx, copiedFiles, copyFailed,
                 att>>

\* appendLog(`run: launching N command(s) in background`)
AppendLaunching(p) ==
  /\ pc[p] = "launching"
  /\ AppendTo(p, Line(att[p], "launching", "", Len(cfg[p].run)))
  /\ pc' = [pc EXCEPT ![p] = "spawn"]
  /\ UNCHANGED <<files, chains, pkg, info, mainFound, cfg, idx, copiedFiles, copyFailed,
                 att, result>>

\* commands.join(' && '): the token sequence bash is given.
RECURSIVE runChain(_)
runChain(commands) ==
  IF commands = <<>> THEN <<>>
  ELSE IF Len(commands) = 1 THEN commands[1]
  ELSE commands[1] \o <<"&&">> \o runChain(Tail(commands))

\* The bash process spawn starts for the invocation.
NewChain(p) ==
  [a |-> att[p], root |-> info[p].worktreeRoot, toks |-> runChain(cfg[p].run),
   n |-> Len(cfg[p].run), pos |-> 1, rc |-> 0, st |-> "new", hist |-> <<>>]

\* spawn('bash', ['-lc', wrappedScript], {detached}) and proc.unref(): the
\* process starts, or spawn throws, or it returns a handle without pid and
\* reports the failure later by an 'error' event.
Spawn(p) ==
  /\ pc[p] = "spawn"
  /\ \E outcome \in {"ok", "throw", "emit"} :
       /\ chains' = IF outcome = "ok" THEN Append(chains, NewChain(p)) ELSE chains
       /\ pc' = [pc EXCEPT ![p] = IF outcome = "throw" THEN "spawnfailed"
                                   ELSE "started"]
  /\ UNCHANGED <<files, ledger, pkg, info, mainFound, cfg, idx, copiedFiles, copyFailed,
                 att, result>>

\* A slip: the invocation waits for the exit of the process it started.
AppendStarted_waits(p) ==
  /\ pc[p] = "started"
  /\ \A c \in 1..Len(chains) : chains[c].a = att[p] => chains[c].st = "done"
  /\ AppendTo(p, Line(att[p], "started", "", 0))
  /\ Return(p, Performed(copiedFiles[p], cfg[p].run))
  /\ UNCHANGED <<files, chains, pkg, info, mainFound, cfg, idx, copiedFiles, copyFailed,
                 att>>

\* appendLog(`run: background process started pid=...`), then the final return
AppendStarted(p) ==
  /\ pc[p] = "started"
  /\ AppendTo(p, Line(att[p], "started", "", 0))
  /\ Return(p, Performed(copiedFiles[p], cfg[p].run))
  /\ UNCHANGED <<files, chains, pkg, info, mainFound, cfg, idx, copiedFiles, copyFailed,
                 att>>

\* catch (err): appendLog('...failed stage=spawn ...'); return ...
AppendSpawnFailed(p) ==
  /\ pc[p] = "spawnfailed"
  /\ AppendTo(p, Line(att[p], "spawnfailtoken", "", 0))
  /\ Return(p, Skip("Failed to spawn run commands"))
  /\ UNCHANGED <<files, chains, pkg, info, mainFound, cfg, idx, copiedFiles, copyFailed,
                 att>>

\* no commands: appendLog(SUCCESS_TOKEN), then the final return
AppendSuccess(p) ==
  /\ pc[p] = "success"
  /\ AppendTo(p, Line(att[p], "success", "", 0))
  /\ Return(p, Performed(copiedFiles[p], cfg[p].run))
  /\ UNCHANGED <<files, chains, pkg, info, mainFound, cfg, idx, copiedFiles, copyFailed,
                 att>>

\* ------------------------------------------------- the detached bash process
\* Does bash run the simple command at pos, the last exit status being rc?
Runs(toks, pos, rc) ==
  \/ pos = 1
  \/ toks[pos - 1] = "&&" /\ rc = 0
  \/ toks[pos - 1] = "||" /\ rc # 0

\* The next simple command bash runs from pos on (0: none is left).
RECURSIVE NextRun(_, _, _)
NextRun(toks, pos, rc) ==
  IF pos > Len(toks) THEN 0
  ELSE IF Runs(toks, pos, rc) THEN pos
  ELSE NextRun(toks, pos + 2, rc)

ChainAppend(c, l) ==
  ledger' = [ledger EXCEPT ![chains[c].root] = Append(@, l)]

\* echo "[date] command run start (N command(s))"
ChainStart(c) ==
  /\ chains[c].st = "new"
  /\ ChainAppend(c, Line(chains[c].a, "runstart", "", chains[c].n))
  /\ chains' = [chains EXCEPT ![c].st = "running"]
  /\ UNCHANGED <<files, pkg, pc, info, mainFound, cfg, idx, copiedFiles, copyFailed, att,
                 result>>

\* One simple command of the chain runs.  Its output goes to the ledger as the
\* command writes it: a whole line in one write before it exits with some
\* code, or the head of a line first, without newline.
ChainExec(c) ==
  /\ chains[c].st = "running"
  /\ LET q == NextRun(chains[c].toks, chains[c].pos, chains[c].rc)
     IN /\ q # 0
        /\ \/ \E code \in ExitCodes :
                /\ ChainAppend(c, Line(chains[c].a, "out", OutputOf(chains[c].toks[q]), q))
                /\ chains' = [chains EXCEPT ![c].rc = code, ![c].pos = q + 2,
                                            ![c].hist = Append(@, <<q, code>>)]
           \/ /\ ChainAppend(c, Line(chains[c].a, "outhead", OutputOf(chains[c].toks[q]), q))
              /\ chains' = [chains EXCEPT ![c].st = "midline"]
  /\ UNCHANGED <<files, pkg, pc, info, mainFound, cfg, idx, copiedFiles, copyFailed,
                 att, result>>

\* The file after the rest of a line is written at its end: the line is whole
\* when its head still ends the file, else the head stays glued to what was
\* written after it and the rest stands alone.
WriteTail(log, a, q) ==
  IF log # <<>> /\ log[Len(log)].a = a /\ log[Len(log)].k = "outhead"
                /\ log[Len(log)].n = q
  THEN [log EXCEPT ![Len(log)].k = "out"]
  ELSE Append(log, Line(a, "outtail", "", q))

\* The command that wrote the head of a line writes the rest of it and exits.
ChainTail(c) ==
  /\ chains[c].st = "midline"
  /\ LET q == NextRun(chains[c].toks, chains[c].pos, chains[c].rc)
     IN \E code \in ExitCodes :
          /\ ledger' = [ledger EXCEPT ![chains[c].root] = WriteTail(@, chains[c].a, q)]
          /\ chains' = [chains EXCEPT ![c].st = "running", ![c].rc = code,
                                      ![c].pos = q + 2,
                                      ![c].hist = Append(@, <<q, code>>)]
  /\ UNCHANGED <<files, pkg, pc, info, mainFound, cfg, idx, copiedFiles, copyFailed,
                 att, result>>

\* One simple command of the chain runs and never terminates.
ChainHang(c) ==
  /\ chains[c].st = "running"
  /\ NextRun(chains[c].toks, chains[c].pos, chains[c].rc) # 0
  /\ chains' = [chains EXCEPT ![c].st = "hung"]
  /\ UNCHANGED <<files, ledger, pkg, pc, info, mainFound, cfg, idx, copiedFiles, copyFailed,
                 att, result>>

\* A slip: the test of rc is inverted.
ChainEnd_inverted(c) ==
  /\ chains[c].st = "running"
  /\ NextRun(chains[c].toks, chains[c].pos, chains[c].rc) = 0
  /\ ChainAppend(c, IF chains[c].rc # 0
                    THEN Line(chains[c].a, "success", "", 0)
                    ELSE Line(chains[c].a, "runfailtoken", "", chains[c].rc))
  /\ chains' = [chains EXCEPT ![c].st = "done"]
  /\ UNCHANGED <<files, pkg, pc, info, mainFound, cfg, idx, copiedFiles, copyFailed, att,
                 result>>

\* rc=$?; if [ "$rc" -eq 0 ]; then echo SUCCESS_TOKEN; else echo failed ...; fi
ChainEnd(c) ==
  /\ chains[c].st = "running"
  /\ NextRun(chains[c].toks, chains[c].pos, chains[c].rc) = 0
  /\ ChainAppend(c, IF chains[c].rc = 0
                    THEN Line(chains[c].a, "success", "", 0)
                    ELSE Line(chains[c].a, "runfailtoken", "", chains[c].rc))
  /\ chains' = [chains EXCEPT ![c].st = "done"]
  /\ UNCHANGED <<files, pkg, pc, info, mainFound, cfg, idx, copiedFiles, copyFailed, att,
                 result>>

ChainStep(c) ==
  \/ ChainStart(c)
  \/ ChainExec(c)
  \/ ChainTail(c)
  \/ ChainHang(c)
  \/ ChainEnd(c)

\* The caller has the result and the process ends: its locals are gone.
\* package.json may be edited again once no invocation runs.
Exit(p) ==
  /\ pc[p] = "done"
  /\ pc' = [pc EXCEPT ![p] = "idle"]
  /\ info' = [info EXCEPT ![p] = NoInfo]
  /\ mainFound' = [mainFound EXCEPT ![p] = TRUE]
  /\ cfg' = [cfg EXCEPT ![p] = NoConfig]
  /\ idx' = [idx EXCEPT ![p] = 1]
  /\ copiedFiles' = [copiedFiles EXCEPT ![p] = <<>>]
  /\ copyFailed' = [copyFailed EXCEPT ![p] = FALSE]
  /\ att' = [att EXCEPT ![p] = 0]
  /\ result' = [result EXCEPT ![p] = NoResult]
  /\ pkg' = IF \A q \in Procs \ {p} : pc[q] = "idle" THEN PkgUnread ELSE pkg
  /\ UNCHANGED <<files, ledger, chains>>

\* runSetup past the ledger gate.
Run(p) ==
  \/ AppendStart(p)
  \/ CopyCheck(p)
  \/ CopyDo(p)
  \/ SkipCheck(p)
  \/ LogCopy(p)
  \/ AppendCopyFailed(p)
  \/ AppendLaunching(p)
  \/ Spawn(p)
  \/ AppendStarted(p)
  \/ AppendSpawnFailed(p)
  \/ AppendSuccess(p)

\* Handing over the result and ending the process is one event: nothing else
\* happens between an invocation's return and its exit.
Returning == \E p \in Procs : pc[p] = "done"

\* No invocation runs and no launched chain is still going to write.
Quiescent ==
  /\ \A p \in Procs : pc[p] = "idle"
  /\ \A c \in 1..Len(chains) : chains[c].st \in {"done", "hung"}

\* Invocations one after the other: the tool is invoked again when the
\* previous invocation and its chain are over.
Next ==
  \/ \E p \in Procs : Exit(p)
  \/ ~Returning /\ Quiescent /\ \E p \in Procs : Enter(p)
  \/ ~Returning /\ \E p \in Procs : Run(p)
  \/ ~Returning /\ \E c \in 1..Len(chains) : ChainStep(c)

Spec == Init /\ [][Next]_vars

\* The first attempt on a worktree without ledger, run to its end: the
\* invocation is synchronous code of a running process, and the detached bash
\* process is scheduled by the operating system.
Fresh == \A r \in Roots : ledger[r] = <<>>

LiveNext ==
  \/ \E p \in Procs : Exit(p)
  \/ ~Returning /\ Quiescent /\ Fresh /\ \E p \in Procs : Enter(p)
  \/ ~Returning /\ \E p \in Procs : Run(p)
  \/ ~Returning /\ \E c \in 1..Len(chains) : ChainStep(c)

LiveSpec ==
  /\ Init
  /\ [][LiveNext]_vars
  /\ WF_vars(\E p \in Procs : Exit(p))
  /\ WF_vars(~Returning /\ \E p \in Procs : Run(p))
  /\ WF_vars(~Returning /\ \E c \in 1..Len(chains) : ChainStep(c))

\* Invocations that overlap on the linked worktree /w of /m, whose
\* package.json configures one copy path and at most one command, followed up
\* to the launch of their chains (what a launched chain does is followed in
\* Spec and LiveSpec).  Every process makes one attempt.
ConcConfigs ==
  {[present |-> TRUE, copy |-> <<"a">>, run |-> r] : r \in {<<>>, <<Simple>>}}

OnLinked(p) ==
  /\ info[p].found /\ info[p].isLinkedWorktree
  /\ info[p].worktreeRoot = DirW /\ info[p].mainRoot = DirM
  /\ mainFound[p]
  /\ cfg[p] \in ConcConfigs

Attempts == NStarts(ledger[DirW]) + Cardinality({q \in Procs : pc[q] = "start"})

ConcNext ==
  \/ \E p \in Procs : Exit(p)
  \/ /\ ~Returning
     /\ Attempts < Cardinality(Procs)
     /\ \E p \in Procs : Enter(p) /\ OnLinked(p)'
  \/ ~Returning /\ \E p \in Procs : Run(p)

ConcSpec == Init /\ [][ConcNext]_vars

\* ------------------------------------------------------------------ claims
\* The step in which invocation p begins: it is past the gates or has returned.
Begins(p) == pc[p] = "idle" /\ pc'[p] # "idle"

\* The invocation that begins works on the linked worktree /w.
BeginsOnW(p) == Begins(p) /\ info'[p].found /\ info'[p].worktreeRoot = DirW

\* The success sentinel stands somewhere in the ledger.
SentinelIn(log) ==
  \E i \in 1..Len(log) : log[i].k = "success" \/ log[i].rel = SUCCESS_TOKEN

\* Lines of attempt a in a ledger, by message.
LinesOf(log, a, kinds) == {i \in 1..Len(log) : log[i].a = a /\ log[i].k \in kinds}

CopyKinds == {"copied", "exists", "missing", "failed"}

\* C1: once the ledger of the worktree holds the success sentinel, an
\* invocation that begins on that worktree returns at once, performed:false,
\* whatever package.json holds by then, and neither the copied files nor the
\* ledger nor the set of launched chains change.
C1_SuccessIsPermanent ==
  [][\A p \in Procs :
       (BeginsOnW(p) /\ SentinelIn(ledger[DirW]))
         => /\ pc'[p] = "done"
            /\ result'[p].returned /\ ~result'[p].performed
            /\ UNCHANGED <<files, ledger, chains>>]_vars

\* An invocation with copy paths and commands configured has returned
\* "Already initialized" on a ledger whose sentinel a chain wrote.
C1_Witness ==
  \E p \in Procs :
    /\ pc[p] = "done"
    /\ result[p] = Skip("Already initialized")
    /\ cfg[p].copy # <<>> /\ cfg[p].run # <<>>
    /\ \E c \in 1..Len(chains) : chains[c].st = "done" /\ chains[c].rc = 0
    /\ SentinelIn(ledger[DirW])

\* The invocation that wrote the sentinel itself: its attempt launched nothing.
SentinelByInvocation(log) ==
  \E i \in 1..Len(log) :
    log[i].k = "success" /\ LinesOf(log, log[i].a, {"launching"}) = {}

\* Exactly one set of copies: a path is copied at most once over all attempts,
\* and what stands at a path with a "copied" line is the copy.
OneSetOfCopies(log) ==
  \A rel \in Paths :
    LET n == Cardinality({i \in 1..Len(log) : log[i].k = "copied" /\ log[i].rel = rel})
    IN n <= 1 /\ (n = 1 => files[rel] = "src")

\* C2 as stated: after an invocation without run commands completed, the next
\* invocation on the linked worktree returns "Already initialized".
C2_AsStated ==
  [][\A p \in Procs :
       (BeginsOnW(p) /\ info'[p].isLinkedWorktree /\ SentinelByInvocation(ledger[DirW]))
         => result'[p] = Skip("Already initialized")]_vars

\* C2, amended: after an invocation without run commands completed, the next
\* invocation on the linked worktree returns performed:false and copies
\* nothing, one set of copies stands on disk, and the reason is "Already
\* initialized" when the main worktree still exists and its package.json still
\* holds a config, else the reason of the earlier gate.
C2_Idempotent ==
  [][\A p \in Procs :
       (BeginsOnW(p) /\ info'[p].isLinkedWorktree /\ SentinelByInvocation(ledger[DirW]))
         => /\ pc'[p] = "done"
            /\ ~result'[p].performed
            /\ result'[p].copiedFiles = <<>>
            /\ UNCHANGED <<files, ledger, chains>>
            /\ OneSetOfCopies(ledger[DirW])
            /\ result'[p].skippedReason \in
                 {"Already initialized", "No worktreeSetup config in package.json",
                  "Main worktree not found"}
            /\ cfg'[p].present => result'[p] = Skip("Already initialized")]_vars

\* The second invocation has returned "Already initialized" after the first
\* copied a path and wrote the sentinel itself.
C2_Witness ==
  \E p \in Procs :
    /\ pc[p] = "done"
    /\ result[p] = Skip("Already initialized")
    /\ SentinelByInvocation(ledger[DirW])
    /\ \E i \in 1..Len(ledger[DirW]) : ledger[DirW][i].k = "copied"

\* The results runSetup owes to a directory of each kind.
Owed(kind) ==
  IF kind \in {"none", "submodule"} THEN Skip("Not in a git repository")
  ELSE Skip("Not a linked worktree")

\* C3: an invocation in a directory outside any repository, in a submodule or
\* in the primary worktree returns performed:false with the reason of that
\* case, and copies nothing, writes no ledger and launches nothing.
C3_NothingOutsideLinked ==
  [][\A p \in Procs :
       \A g \in GitFacts :
         (Begins(p) /\ g.kind # "linked" /\ info'[p] = detectWorktree(g))
           => /\ pc'[p] = "done"
              /\ result'[p] = Owed(g.kind)
              /\ UNCHANGED <<files, ledger, chains>>
              /\ \A r \in Roots \ {DirW} : ledger'[r] = <<>>]_vars

\* An invocation in the primary worktree has returned "Not a linked worktree"
\* while the linked worktree has a ledger and the primary one has none.
C3_Witness ==
  \E p \in Procs :
    /\ pc[p] = "done"
    /\ info[p].found /\ info[p].worktreeRoot = DirM
    /\ result[p] = Skip("Not a linked worktree")
    /\ ledger[DirW] # <<>> /\ ledger[DirM] = <<>>

\* C4: a destination that exists is left as it is by every step, a path is
\* added to copiedFiles only in a step that finds its destination absent, and
\* a path has a "copied" line only when the copy stands there, at most once.
C4_CopySafety ==
  [][/\ \A rel \in Paths :
          files[rel] # "absent"
            => /\ files'[rel] = files[rel]
               /\ \A p \in Procs :
                    Len(copiedFiles'[p]) > Len(copiedFiles[p])
                      => copiedFiles'[p][Len(copiedFiles'[p])] # rel
     /\ OneSetOfCopies(ledger[DirW])']_vars

\* An attempt has returned performed:true having copied b and skipped a, whose
\* destination held the worktree's own content.
C4_Witness ==
  \E p \in Procs :
    /\ pc[p] = "done"
    /\ result[p].performed
    /\ cfg[p].copy = <<"a", "b">>
    /\ result[p].copiedFiles = <<"b">>
    /\ files["a"] = "local" /\ files["b"] = "src"
    /\ \E i \in LinesOf(ledger[DirW], att[p], {"exists"}) : ledger[DirW][i].rel = "a"

\* What the attempt of invocation p has done when it returns: one start line,
\* one outcome line for every configured copy path and, unless a copy of it
\* threw, the launch of all configured commands in one chain.
FullAttempt(p) ==
  LET log == ledger[DirW]
      a == att[p]
  IN /\ Cardinality(LinesOf(log, a, {"start"})) = 1
     /\ \A i \in 1..Len(cfg[p].copy) :
          Cardinality({j \in LinesOf(log, a, CopyKinds) : log[j].rel = cfg[p].copy[i]}) = 1
     /\ Cardinality(LinesOf(log, a, CopyKinds)) = Len(cfg[p].copy)
     /\ (~copyFailed[p] /\ cfg[p].run # <<>>)
          => /\ \E j \in LinesOf(log, a, {"launching"}) : log[j].n = Len(cfg[p].run)
             /\ \/ result[p] = Performed(copiedFiles[p], cfg[p].run)
                \/ result[p] = Skip("Failed to spawn run commands")
     /\ \A c \in 1..Len(chains) :
          chains[c].a = a
            => chains[c].toks = runChain(cfg[p].run) /\ chains[c].n = Len(cfg[p].run)

\* C5: an invocation that begins on the linked worktree with a config present
\* and a ledger that exists without the sentinel passes the ledger gate, and
\* the attempt it makes is a full one: a start line, every configured copy
\* path checked again and, unless a copy of the new attempt threw, all
\* configured commands launched again.
C5_RetryAfterFailure ==
  [][\A p \in Procs :
       /\ (BeginsOnW(p) /\ cfg'[p].present /\ ledger[DirW] # <<>>
            /\ ~SentinelIn(ledger[DirW]))
           => pc'[p] = "start"
       /\ (pc'[p] = "done" /\ att'[p] > 1) => FullAttempt(p)']_vars

\* The second attempt has copied and launched its chain after a first attempt
\* that left a failure token.
C5_Witness ==
  \E p \in Procs :
    /\ pc[p] = "done"
    /\ att[p] = 2
    /\ result[p].performed
    /\ result[p].copiedFiles # <<>> /\ Len(result[p].ranCommands) = 2
    /\ LinesOf(ledger[DirW], 1, {"copyfailtoken", "spawnfailtoken"}) # {}
    /\ \E c \in 1..Len(chains) : chains[c].a = 2

\* The configured command a token of the joined chain belongs to.
CmdOf(toks, pos) == 1 + Cardinality({i \in 1..(pos - 1) : toks[i] = "&&"})

\* C6 as stated: in every chain the configured commands run in their order,
\* a command runs only after the command before it exited 0, the failure token
\* carries the exit code of the failing command, and the sentinel is written
\* only when every configured command ran and exited 0.
C6_AsStated ==
  \A c \in 1..Len(chains) :
    LET h == chains[c].hist
        t == chains[c].toks
        LastOf(j) == {i \in 1..Len(h) : CmdOf(t, h[i][1]) = j
                        /\ \A k \in (i + 1)..Len(h) : CmdOf(t, h[k][1]) # j}
    IN /\ \A i \in 1..(Len(h) - 1) :
            CmdOf(t, h[i + 1][1]) # CmdOf(t, h[i][1])
              => h[i][2] = 0 /\ CmdOf(t, h[i + 1][1]) = CmdOf(t, h[i][1]) + 1
       /\ (chains[c].st = "done" /\ chains[c].rc = 0)
            => \A j \in 1..chains[c].n :
                 LastOf(j) # {} /\ \A i \in LastOf(j) : h[i][2] = 0
       /\ (chains[c].st = "done" /\ chains[c].rc # 0)
            => h # <<>> /\ h[Len(h)][2] = chains[c].rc

\* C9 as stated: a path whose source the first check of copyIfMissing found
\* missing (it returned at line 23) is recorded as skipped (missing source).
C9_AsStated ==
  [][\A p \in Procs :
       pc[p] = "ret23" /\ pc'[p] # "ret23" => pc'[p] = "logmissing"]_vars

SentinelAfter(log, a) ==
  \E i \in LinesOf(log, a, {"success"}) :
    /\ LinesOf(log, a, {"start"}) # {}
    /\ \A j \in LinesOf(log, a, {"start"} \cup CopyKinds) : j < i

\* C7: once the chain of the first attempt is launched, the ledger eventually
\* holds the sentinel after the start and copy lines of that attempt, unless a
\* command of the chain never terminates or the chain ends with a non-zero
\* exit code.
C7_EventualSuccess ==
  (Len(chains) >= 1)
    ~> (/\ Len(chains) >= 1
        /\ \/ chains[1].st = "hung"
           \/ chains[1].st = "done" /\ chains[1].rc # 0
           \/ SentinelAfter(ledger[DirW], chains[1].a))

\* The chain of two commands has ended with every command exited 0 and the
\* sentinel stands after the copy line of the attempt.
C7_Witness ==
  /\ Len(chains) = 1
  /\ chains[1].st = "done" /\ chains[1].n = 2
  /\ \A i \in 1..Len(chains[1].hist) : chains[1].hist[i][2] = 0
  /\ LinesOf(ledger[DirW], 1, {"copied"}) # {}
  /\ SentinelAfter(ledger[DirW], 1)

\* C8: every invocation that is past the gates returns, whatever the chain it
\* launched does, and when it recorded the start of the background process
\* its result is performed:true with the files it copied and all configured
\* commands, whatever state the chain is in.
C8_NeverWaits ==
  /\ \A p \in Procs : (pc[p] \notin {"idle", "done"}) ~> (pc[p] = "done")
  /\ [](\A p \in Procs :
          (pc[p] = "done" /\ LinesOf(ledger[DirW], att[p], {"started"}) # {})
            => result[p] = Performed(copiedFiles[p], cfg[p].run))

\* The invocation has returned performed:true while a command of the chain
\* it launched hangs.
C8_Witness ==
  \E p \in Procs :
    /\ pc[p] = "done"
    /\ result[p].performed /\ result[p].ranCommands # <<>>
    /\ \E c \in 1..Len(chains) : chains[c].a = att[p] /\ chains[c].st = "hung"

\* C11: an invocation in which a copy threw appends the copy failure token,
\* writes no sentinel and launches no chain, returns performed:false with
\* "Failed to copy one or more files", and every file it copied stands in
\* the worktree as the copy when it returns.
C11_CopyFailure ==
  \A p \in Procs :
    LET log == ledger[DirW]
        a == att[p]
    IN (pc[p] = "done" /\ LinesOf(log, a, {"failed"}) # {})
         => /\ LinesOf(log, a, {"copyfailtoken"}) # {}
            /\ LinesOf(log, a, {"success"}) = {}
            /\ \A c \in 1..Len(chains) : chains[c].a # a
            /\ result[p].returned /\ ~result[p].performed
            /\ result[p].skippedReason = "Failed to copy one or more files"
            /\ \A i \in 1..Len(copiedFiles[p]) : files[copiedFiles[p][i]] = "src"
            /\ \A i \in LinesOf(log, a, {"copied"}) : files[log[i].rel] = "src"

\* The invocation copied a, the copy of b threw and left a partial
\* destination, and the invocation has returned with commands configured.
C11_Witness ==
  \E p \in Procs :
    /\ pc[p] = "done"
    /\ cfg[p].copy = <<"a", "b">> /\ cfg[p].run # <<>>
    /\ copiedFiles[p] = <<"a">>
    /\ files["a"] = "src" /\ files["b"] = "partial"
    /\ LinesOf(ledger[DirW], att[p], {"failed"}) # {}

\* C12: the ledger gate excludes nobody: as long as the ledger of /w holds no
\* sentinel, an invocation that is not running can begin on /w and pass the
\* gate, whatever the other invocations and the launched chains are doing.
C12_GateNotExclusive ==
  \A q \in Procs :
    (pc[q] = "idle" /\ ~Returning /\ ~SentinelIn(ledger[DirW])
       /\ Len(ledger[DirW]) < MaxLog)
      => ENABLED (Enter(q) /\ pc'[q] = "start" /\ info'[q].worktreeRoot = DirW)

\* Two invocations have passed the gate and each has launched its chain on
\* /w; neither chain has written anything yet.
C12_Witness ==
  /\ Len(chains) = 2
  /\ chains[1].root = DirW /\ chains[2].root = DirW
  /\ chains[1].a # chains[2].a
  /\ chains[1].st = "new" /\ chains[2].st = "new"
  /\ ~SentinelIn(ledger[DirW])
  /\ \E p \in Procs : pc[p] = "started"

\* The content old is a prefix of the content new: every line of old stands at
\* its place in new, the head of a line that ends old possibly completed.
Extends(old, new) ==
  /\ Len(old) <= Len(new)
  /\ \A i \in 1..Len(old) :
       \/ new[i] = old[i]
       \/ i = Len(old) /\ old[i].k = "outhead" /\ new[i] = [old[i] EXCEPT !.k = "out"]

\* C13: in every step the content of each ledger is a prefix of its content
\* after the step: nothing an invocation or a chain wrote, a failure token
\* included, is removed or rewritten later.
C13_AppendOnly ==
  [][\A r \in Roots : Extends(ledger[r], ledger'[r])]_vars

\* The failure token of the first attempt stands in the ledger before the
\* sentinel of the second.
C13_Witness ==
  \E i \in LinesOf(ledger[DirW], 1, {"copyfailtoken", "spawnfailtoken"}) :
    \E j \in LinesOf(ledger[DirW], 2, {"success"}) : i < j

\* C14 as stated: every line of a ledger is whole: no head of a line of
\* command output has text of another writer after it, and no rest of a line
\* stands apart from its head.
C14_AsStated ==
  \A r \in Roots :
    \A i \in 1..Len(ledger[r]) :
      /\ ledger[r][i].k # "outtail"
      /\ ledger[r][i].k = "outhead" => i = Len(ledger[r])

\* The config that is present and holds no entry.
EmptyConfig == [present |-> TRUE, copy |-> <<>>, run |-> <<>>]

\* C15: when the invocation reads a package.json that is absent, does not
\* parse or has no worktreeSetup value, it returns performed:false with the
\* no-config reason and the ledgers stay as they are; when it reads a config
\* without entries and the ledger holds no sentinel it passes the gate, and
\* its attempt is a start line followed by the sentinel, returned as
\* performed:true with nothing copied and nothing run.
C15_ConfigPresence ==
  [][\A p \in Procs :
       /\ (Begins(p) /\ ~pkg.known /\ pkg'.known
            /\ (~pkg'.exists \/ ~pkg'.parses \/ ~pkg'.ws.present))
           => /\ pc'[p] = "done"
              /\ result'[p] = Skip("No worktreeSetup config in package.json")
              /\ ledger' = ledger
       /\ (BeginsOnW(p) /\ ~pkg.known /\ pkg'.known /\ pkg'.exists /\ pkg'.parses
            /\ pkg'.ws = EmptyConfig /\ ~SentinelIn(ledger[DirW]))
           => pc'[p] = "start"
       /\ (pc[p] # "done" /\ pc'[p] = "done" /\ att'[p] > 0 /\ cfg'[p] = EmptyConfig)
           => /\ result'[p] = Performed(<<>>, <<>>)
              /\ Len(ledger'[DirW]) >= 2
              /\ ledger'[DirW][Len(ledger'[DirW]) - 1] = Line(att'[p], "start", "", 0)
              /\ ledger'[DirW][Len(ledger'[DirW])] = Line(att'[p], "success", "", 0)]_vars

\* An invocation with the empty config has returned performed:true on a ledger
\* of a start line and the sentinel.
C15_Witness ==
  \E p \in Procs :
    /\ pc[p] = "done"
    /\ cfg[p] = EmptyConfig
    /\ result[p] = Performed(<<>>, <<>>)
    /\ ledger[DirW] = <<Line(1, "start", "", 0), Line(1, "success", "", 0)>>

\* The preconditions of runSetup that are unmet for what invocation p found,
\* numbered in the order of the gates.  A main worktree that is missing has
\* no package.json either.
Unmet(p, log) ==
  (IF ~info[p].found THEN {1} ELSE {})
    \cup (IF ~info[p].found \/ ~info[p].isLinkedWorktree THEN {2} ELSE {})
    \cup (IF ~mainFound[p] THEN {3} ELSE {})
    \cup (IF ~(pkg.known /\ pkg.exists /\ pkg.parses /\ pkg.ws.present) THEN {4} ELSE {})
    \cup (IF info[p].found /\ info[p].worktreeRoot \in Roots
             /\ SentinelIn(log[info[p].worktreeRoot]) THEN {5} ELSE {})

ReasonOf(gate) ==
  CASE gate = 1 -> "Not in a git repository"
    [] gate = 2 -> "Not a linked worktree"
    [] gate = 3 -> "Main worktree not found"
    [] gate = 4 -> "No worktreeSetup config in package.json"
    [] gate = 5 -> "Already initialized"

\* C16: an invocation that begins returns the reason of the earliest unmet
\* precondition in the order not-a-repo, not-linked, main-root-missing,
\* no-config, already-initialized, whichever later ones are unmet as well; it
\* goes on only when none is unmet, and a start line is appended only by an
\* invocation that went on.
C16_GateOrder ==
  [][/\ \A p \in Procs :
          Begins(p)
            => LET u == Unmet(p, ledger)'
               IN IF u = {}
                  THEN pc'[p] = "start" /\ ~result'[p].returned
                  ELSE /\ pc'[p] = "done"
                       /\ result'[p] =
                            Skip(ReasonOf(CHOOSE g \in u : \A h \in u : g <= h))
                       /\ ledger' = ledger
     /\ NStarts(ledger'[DirW]) > NStarts(ledger[DirW])
          => \E p \in Procs : pc[p] = "start" /\ pc'[p] # "start"]_vars

\* An invocation has returned "No worktreeSetup config in package.json" on a
\* worktree whose ledger holds the sentinel: two gates were unmet.
C16_Witness ==
  \E p \in Procs :
    /\ pc[p] = "done"
    /\ Unmet(p, ledger) = {4, 5}
    /\ result[p] = Skip("No worktreeSetup config in package.json")

\* C17 as stated: an invocation that went to launch its commands and started
\* no process holds the spawn failure token in its attempt, no "background
\* process started" line and no sentinel, and returns performed:false with
\* "Failed to spawn run commands".
C17_AsStated ==
  \A p \in Procs :
    LET log == ledger[DirW]
        a == att[p]
    IN (pc[p] = "done" /\ LinesOf(log, a, {"launching"}) # {}
          /\ \A c \in 1..Len(chains) : chains[c].a # a)
         => /\ LinesOf(log, a, {"spawnfailtoken"}) # {}
            /\ LinesOf(log, a, {"started", "success"}) = {}
            /\ result[p] = Skip("Failed to spawn run commands")

\* detectWorktree's answer for the git answers g, as the rule reads: no info
\* outside a repository and in a submodule; else linked exactly when the
\* resolved git-dir differs from the resolved common dir, which is the case
\* exactly in a linked worktree, and mainRoot the parent of a common dir
\* named ".git", the common dir itself otherwise.
DetectedAsRuled(g) ==
  LET i == detectWorktree(g)
      shared == resolve(g.cwd, g.common)
      own == resolve(g.cwd, g.gitdir)
  IN IF g.kind \in {"none", "submodule"} THEN i = NoInfo
     ELSE /\ i.found
          /\ i.isLinkedWorktree <=> own # shared
          /\ i.isLinkedWorktree <=> g.kind = "linked"
          /\ i.worktreeRoot = <<g.cwd[1]>>
          /\ i.mainRoot = IF shared[Len(shared)] = ".git"
                          THEN SubSeq(shared, 1, Len(shared) - 1)
                          ELSE shared
          /\ i.mainRoot \in {DirM, DirBare}

\* C18: detectWorktree answers as ruled for every directory, and what an
\* invocation holds as info is the answer for one of them.
C18_Detection ==
  /\ \A g \in GitFacts : DetectedAsRuled(g)
  /\ \A p \in Procs :
       pc[p] # "idle"
         => \E g \in GitFacts : info[p] = detectWorktree(g) /\ DetectedAsRuled(g)

\* An invocation runs in the linked worktree of the bare repository: its
\* mainRoot is the shared directory itself.
C18_Witness ==
  \E p \in Procs :
    /\ pc[p] = "copycheck"
    /\ info[p].isLinkedWorktree
    /\ info[p].worktreeRoot = DirW /\ info[p].mainRoot = DirBare

\* Lines a chain writes.
ChainKinds == {"runstart", "out", "outhead", "outtail", "runfailtoken"}

\* The lines of attempt a stand in the order start, copy outcomes, launching,
\* lines of the chain.
AttemptOrdered(log, a) ==
  LET S == LinesOf(log, a, {"start"})
      Cp == LinesOf(log, a, CopyKinds)
      L == LinesOf(log, a, {"launching"})
      Ch == LinesOf(log, a, ChainKinds)
             \cup (IF L = {} THEN {} ELSE LinesOf(log, a, {"success"}))
  IN /\ Cardinality(S) = 1
     /\ Cardinality(L) <= 1
     /\ \A s \in S : \A x \in Cp \cup L \cup Ch : s < x
     /\ \A l \in L : (\A x \in Cp : x < l) /\ (\A x \in Ch : l < x)
     /\ Ch # {} => L # {}

\* The copy lines of the attempt of invocation p name the configured paths in
\* their order, one line for each path gone through.
CopiesInOrder(p) ==
  LET log == ledger[DirW]
      Cp == LinesOf(log, att[p], CopyKinds)
  IN /\ Cardinality(Cp) =
          (IF pc[p] \in {"copycheck", "copydo", "ret23", "ret24", "logcopied",
                          "logexists", "logmissing", "logfailed"}
           THEN idx[p] - 1 ELSE Len(cfg[p].copy))
     /\ \A x \in Cp : log[x].rel = cfg[p].copy[Cardinality({y \in Cp : y <= x})]

\* C19: in the ledger the lines of every attempt stand in the order start
\* line, copy outcomes, launching line, lines of its chain; and the copy
\* outcomes of an invocation name the configured paths in their order, one
\* for each.
C19_OrderInAttempt ==
  /\ \A a \in 1..NStarts(ledger[DirW]) : AttemptOrdered(ledger[DirW], a)
  /\ \A p \in Procs : att[p] > 0 => CopiesInOrder(p)

\* The chain of an attempt with two copy paths has written its output and its
\* terminal line after the launching line.
C19_Witness ==
  \E p \in Procs :
    /\ pc[p] = "started"
    /\ cfg[p].copy = <<"a", "b">>
    /\ LinesOf(ledger[DirW], att[p], {"out"}) # {}
    /\ LinesOf(ledger[DirW], att[p], {"success", "runfailtoken"}) # {}

\* C20 as stated: an invocation that is about to copy finds the destination
\* absent, and no path has "copied" lines of two invocations.
C20_AsStated ==
  /\ \A p \in Procs :
       pc[p] = "copydo" => files[cfg[p].copy[idx[p]]] = "absent"
  /\ \A rel \in Paths :
       Cardinality({i \in 1..Len(ledger[DirW]) :
                      ledger[DirW][i].k = "copied" /\ ledger[DirW][i].rel = rel}) <= 1

\* Every configured command of chain c ran, and the last simple command run
\* of each exited 0.
AllExitedZero(c) ==
  LET h == chains[c].hist
      t == chains[c].toks
      LastOf(j) == {i \in 1..Len(h) : CmdOf(t, h[i][1]) = j
                      /\ \A k \in (i + 1)..Len(h) : CmdOf(t, h[k][1]) # j}
  IN /\ chains[c].st = "done"
     /\ \A j \in 1..chains[c].n :
          LastOf(j) # {} /\ \A i \in LastOf(j) : h[i][2] = 0

\* Attempt a completed successfully: it had no command to launch and went
\* through its copies without a failure to its sentinel, or the chain it
\* launched ran every command to exit code 0.
CompletedSuccessfully(log, a) ==
  \/ /\ LinesOf(log, a, {"launching"}) = {}
     /\ LinesOf(log, a, {"failed", "copyfailtoken"}) = {}
     /\ LinesOf(log, a, {"success"}) # {}
  \/ \E c \in 1..Len(chains) :
       chains[c].a = a /\ chains[c].root = DirW /\ AllExitedZero(c)

\* C21 as stated, for the states in which every launched chain is over:
\* hasSuccessfulSetup answers true for the ledger of the linked worktree only
\* if some attempt on it completed successfully, and no line other than a
\* sentinel line (a copy outcome, a failure line, output of a command) is
\* what makes it answer true.
C21_AsStated ==
  LET log == ledger[DirW]
  IN (hasSuccessfulSetup(log)
        /\ \A c \in 1..Len(chains) : chains[c].st \in {"done", "hung"})
       => /\ \E a \in 1..NStarts(log) : CompletedSuccessfully(log, a)
          /\ \E i \in 1..Len(log) : log[i].k = "success"
====
